---- MODULE Spec2Model ----
(***************************************************************************)
(* Model of dice_roll_simulation.py: simulate_dice_rolls tabulates the     *)
(* sums of num_rolls pairs of dice in a dict keyed 2..12, and              *)
(* calculate_percentages turns the counts into percentages with the float  *)
(* expression (count / total_rolls) * 100.                                 *)
(*                                                                         *)
(* Python floats are IEEE-754 doubles.  They are modelled bit for bit: a   *)
(* positive double is a record [e, m] with m its 53-bit significand M,     *)
(* 2^52 <= M < 2^53, written as limbs of LimbBits bits, most significant   *)
(* first, and value M * 2^(e - 52).  Division and multiplication round to  *)
(* nearest, ties to even, as the hardware does.  Exponents stay far from   *)
(* the overflow and underflow thresholds for the integers the model draws. *)
(***************************************************************************)
EXTENDS Integers, Sequences, FiniteSets, TLC

\* Largest num_rolls / total_rolls the model draws.
MaxRolls == 3

\* sys.float_info.mant_dig of the double that `/` and `*` produce.
MantDig == 53

\* The model draws num_rolls from -NegRolls: range(num_rolls) is empty for
\* the negative ones.
NegRolls == 1

\* The sums of two dice, the buckets the text speaks of.
Keys == 2..12

\* 100.0 is float(Hundred).
Hundred == 100

-----------------------------------------------------------------------------
(* Unbounded naturals as sequences of limbs, most significant limb first.  *)

\* A significand is held in four limbs.
LimbBits == (MantDig + 3) \div 4

Base == 2 ^ LimbBits

Front(s) == SubSeq(s, 1, Len(s) - 1)

RECURSIVE Strip(_)
Strip(s) == IF s # << >> /\ s[1] = 0 THEN Strip(Tail(s)) ELSE s

RECURSIVE MulCarry(_, _, _)
MulCarry(s, k, carry) ==
    IF s = << >> THEN (IF carry = 0 THEN << >> ELSE <<carry>>)
    ELSE LET v == s[Len(s)] * k + carry
         IN  Append(MulCarry(Front(s), k, v \div Base), v % Base)

\* s * k for a natural k below Base.
NatMul(s, k) == Strip(MulCarry(s, k, 0))

RECURSIVE AddCarry(_, _, _)
AddCarry(s, t, carry) ==
    IF s = << >> /\ t = << >> THEN (IF carry = 0 THEN << >> ELSE <<carry>>)
    ELSE LET a == IF s = << >> THEN 0 ELSE s[Len(s)]
             b == IF t = << >> THEN 0 ELSE t[Len(t)]
             v == a + b + carry
         IN  Append(AddCarry(IF s = << >> THEN s ELSE Front(s),
                             IF t = << >> THEN t ELSE Front(t), v \div Base),
                    v % Base)

NatAdd(s, t) == Strip(AddCarry(s, t, 0))

RECURSIVE LexLeq(_, _)
LexLeq(s, t) ==
    IF s = << >> THEN TRUE
    ELSE IF s[1] # t[1] THEN s[1] < t[1]
    ELSE LexLeq(Tail(s), Tail(t))

\* s <= t as naturals.
NatLeq(s, t) ==
    LET a == Strip(s)
        b == Strip(t)
    IN  IF Len(a) # Len(b) THEN Len(a) < Len(b) ELSE LexLeq(a, b)

\* Number of binary digits of n.
RECURSIVE BitLen(_)
BitLen(n) == IF n = 0 THEN 0 ELSE 1 + BitLen(n \div 2)

-----------------------------------------------------------------------------
(* IEEE-754 double arithmetic.                                             *)

NLimbs == (MantDig + LimbBits - 1) \div LimbBits

\* Binary digits of the leading limb of a significand.
TopBits == MantDig - (NLimbs - 1) * LimbBits

FZero == [e |-> 0, m |-> << >>]

IsZero(x) == x.m = << >>

\* The significand 2^(MantDig - 1).
MinSig == [i \in 1..NLimbs |-> IF i = 1 THEN 2 ^ (TopBits - 1) ELSE 0]

\* The double one unit in the last place above [e, m].
Successor(m, e) ==
    LET n == NatAdd(m, <<1>>)
    IN  IF n[1] = 2 ^ TopBits THEN [e |-> e + 1, m |-> MinSig]
        ELSE [e |-> e, m |-> n]

\* Round to nearest, ties to even: m holds the first MantDig digits, and
\* cmp tells whether the digits cut off behind them are below (-1), equal
\* to (0) or above (1) half a unit in the last place.
RoundNearestEven(m, cmp, e) ==
    IF cmp = 1 \/ (cmp = 0 /\ m[NLimbs] % 2 = 1) THEN Successor(m, e)
    ELSE [e |-> e, m |-> m]

Compare(x, y) == IF x < y THEN -1 ELSE IF x = y THEN 0 ELSE 1

\* Scale a, b > 0 by powers of two until b <= a < 2b; e is the binary
\* exponent of a / b.
RECURSIVE Normalise(_, _, _)
Normalise(a, b, e) ==
    IF a >= 2 * b THEN Normalise(a, 2 * b, e + 1)
    ELSE IF a < b THEN Normalise(2 * a, b, e - 1)
    ELSE [a |-> a, b |-> b, e |-> e]

\* n further quotient limbs of r / b (r < b) appended to q, then the
\* remainder.
RECURSIVE LongDiv(_, _, _, _)
LongDiv(q, r, b, n) ==
    IF n = 0 THEN [q |-> q, r |-> r]
    ELSE LongDiv(Append(q, (r * Base) \div b), (r * Base) % b, b, n - 1)

\* int / int for a >= 0, b > 0: the correctly rounded quotient.
TrueDiv(a, b) ==
    IF a = 0 THEN FZero
    ELSE LET n   == Normalise(a, b, 0)
             top == n.a * 2 ^ (TopBits - 1)
             d   == LongDiv(<<top \div n.b>>, top % n.b, n.b, NLimbs - 1)
         IN  RoundNearestEven(d.q, Compare(2 * d.r, n.b), n.e)

\* The limbs of p with the last s binary digits dropped, 0 <= s < LimbBits.
ShiftRight(p, s) ==
    Strip([i \in 1..Len(p) |->
              p[i] \div 2 ^ s
              + (IF i = 1 THEN 0 ELSE (p[i - 1] % 2 ^ s) * 2 ^ (LimbBits - s))])

\* float * int for 0 <= k < Base: k converts exactly, the exact product is
\* rounded once.
FMulInt(x, k) ==
    IF IsZero(x) \/ k = 0 THEN FZero
    ELSE LET p == NatMul(x.m, k)
             s == (Len(p) - 1) * LimbBits + BitLen(p[1]) - MantDig
             r == p[Len(p)] % 2 ^ s
         IN  RoundNearestEven(ShiftRight(p, s),
                              IF s = 0 THEN -1 ELSE Compare(2 * r, 2 ^ s),
                              x.e + s)

\* float(k) for 0 <= k < 2^TopBits.
FromInt(k) ==
    IF k = 0 THEN FZero
    ELSE [e |-> BitLen(k) - 1,
          m |-> [i \in 1..NLimbs |->
                    IF i = 1 THEN k * 2 ^ (TopBits - BitLen(k)) ELSE 0]]

\* x <= y for doubles x, y >= 0.
FLeq(x, y) ==
    IF IsZero(x) THEN TRUE
    ELSE IF IsZero(y) THEN FALSE
    ELSE IF x.e # y.e THEN x.e < y.e
    ELSE LexLeq(x.m, y.m)

\* The next double above x > 0.
NextUp(x) == Successor(x.m, x.e)

-----------------------------------------------------------------------------
(* The program.                                                            *)

VARIABLES
    pc,           \* where control is: "idle" (nothing called yet), "sim_loop"
                  \* (line 29), "sim_ret" (simulate_dice_rolls returned),
                  \* "calc_loop" (line 50), "calc_ret" (calculate_percentages
                  \* returned), "raised" (an exception left the call)
    num_rolls,    \* argument of simulate_dice_rolls
    trials,       \* iterations of `for _ in range(num_rolls)` done
    die1, die2,   \* locals of the loop body, 0 while unassigned
    total_sum,    \* local of the loop body, 0 while unassigned
    roll_counts,  \* the dict of line 27, << >> before the first call
    total_rolls,  \* argument of calculate_percentages
    items,        \* items of roll_counts.items() consumed by line 50
    percentages,  \* the dict of line 49
    err           \* the exception raised, "" if none

vars == <<pc, num_rolls, trials, die1, die2, total_sum, roll_counts,
          total_rolls, items, percentages, err>>

RangeInclusive(a, b) == a..b

\* range(a, b)
Range(a, b) == a..(b - 1)

RandIntFromZero(a, b) == 0..b

\* random.randint(a, b): any integer of a..b, both ends included.
RandInt(a, b) == a..b

\* {i: 0 for i in range(2, 13)}
InitialCounts == [i \in Range(2, 13) |-> 0]

FreshCountsReused(previous) ==
    IF previous = << >> THEN InitialCounts ELSE previous

\* `roll_counts = {...}` binds a new dict whatever an earlier call built.
FreshCounts(previous) == InitialCounts

LoopContinuesInclusive(done, n) == done <= n

\* `for _ in range(num_rolls)` has a next element after `done` iterations.
LoopContinues(done, n) == done < n

IncrementAssign(counts, key) == [counts EXCEPT ![key] = 1]

\* roll_counts[total_sum] += 1
Increment(counts, key) == [counts EXCEPT ![key] = @ + 1]

QuotientGuarded(count, total) ==
    IF total = 0 THEN [raised |-> FALSE, value |-> FZero]
    ELSE [raised |-> FALSE, value |-> TrueDiv(count, total)]

\* count / total_rolls
Quotient(count, total) ==
    IF total = 0 THEN [raised |-> TRUE, value |-> FZero]
    ELSE [raised |-> FALSE, value |-> TrueDiv(count, total)]

PercentageFraction(count, total) == Quotient(count, total).value

PercentageFloorDiv(count, total) == FromInt((count \div total) * Hundred)

\* (count / total_rolls) * 100, for total_rolls # 0
Percentage(count, total) == FMulInt(Quotient(count, total).value, Hundred)

\* The n-th key of a dict filled in ascending key order.
NthKey(d, n) ==
    CHOOSE k \in DOMAIN d : Cardinality({j \in DOMAIN d : j < k}) = n - 1

\* d[key] = value
Put(d, key, value) ==
    [k \in DOMAIN d \cup {key} |-> IF k = key THEN value ELSE d[k]]

\* What one pass of the body of `for total_sum, count in ...` stores.
Store(counts, pcts, key, value) ==
    [roll_counts |-> counts, percentages |-> Put(pcts, key, value)]

Resting == {"idle", "sim_ret", "calc_ret", "raised"}

Init ==
    /\ pc = "idle"
    /\ num_rolls = 0
    /\ trials = 0
    /\ die1 = 0
    /\ die2 = 0
    /\ total_sum = 0
    /\ roll_counts = << >>
    /\ total_rolls = 0
    /\ items = 0
    /\ percentages = << >>
    /\ err = ""

\* simulate_dice_rolls(n) is called: line 27.
CallSimulate(n) ==
    /\ pc \in Resting
    /\ pc' = "sim_loop"
    /\ num_rolls' = n
    /\ trials' = 0
    /\ die1' = 0
    /\ die2' = 0
    /\ total_sum' = 0
    /\ roll_counts' = FreshCounts(roll_counts)
    /\ total_rolls' = 0
    /\ items' = 0
    /\ percentages' = << >>
    /\ err' = ""

\* One iteration of the loop of lines 29-34.
Trial ==
    /\ pc = "sim_loop"
    /\ LoopContinues(trials, num_rolls)
    /\ \E d1 \in RandInt(1, 6), d2 \in RandInt(1, 6) :
          /\ die1' = d1
          /\ die2' = d2
          /\ total_sum' = d1 + d2
          /\ IF d1 + d2 \in DOMAIN roll_counts
             THEN /\ roll_counts' = Increment(roll_counts, d1 + d2)
                  /\ trials' = trials + 1
                  /\ UNCHANGED <<pc, err>>
             ELSE /\ pc' = "raised"
                  /\ err' = "KeyError"
                  /\ UNCHANGED <<roll_counts, trials>>
    /\ UNCHANGED <<num_rolls, total_rolls, items, percentages>>

\* range(num_rolls) is exhausted: line 36.
SimReturn ==
    /\ pc = "sim_loop"
    /\ ~LoopContinues(trials, num_rolls)
    /\ pc' = "sim_ret"
    /\ trials' = 0
    /\ die1' = 0
    /\ die2' = 0
    /\ total_sum' = 0
    /\ UNCHANGED <<num_rolls, roll_counts, total_rolls, items, percentages, err>>

\* calculate_percentages(roll_counts, t) is called: line 49.
CallCalculate(t) ==
    /\ pc \in {"sim_ret", "calc_ret"} \/ (pc = "raised" /\ err = "ZeroDivisionError")
    /\ pc' = "calc_loop"
    /\ total_rolls' = t
    /\ items' = 0
    /\ percentages' = << >>
    /\ err' = ""
    /\ UNCHANGED <<num_rolls, trials, die1, die2, total_sum, roll_counts>>

\* One iteration of the loop of lines 50-52.
CalcStep ==
    /\ pc = "calc_loop"
    /\ items < Cardinality(DOMAIN roll_counts)
    /\ LET key == NthKey(roll_counts, items + 1)
           q   == Quotient(roll_counts[key], total_rolls)
       IN  IF q.raised
           THEN /\ pc' = "raised"
                /\ err' = "ZeroDivisionError"
                /\ UNCHANGED <<roll_counts, percentages, items>>
           ELSE LET after == Store(roll_counts, percentages, key,
                                   Percentage(roll_counts[key], total_rolls))
                IN  /\ roll_counts' = after.roll_counts
                    /\ percentages' = after.percentages
                    /\ items' = items + 1
                    /\ UNCHANGED <<pc, err>>
    /\ UNCHANGED <<num_rolls, trials, die1, die2, total_sum, total_rolls>>

\* The items are exhausted: line 53.
CalcReturn ==
    /\ pc = "calc_loop"
    /\ items = Cardinality(DOMAIN roll_counts)
    /\ pc' = "calc_ret"
    /\ items' = 0
    /\ UNCHANGED <<num_rolls, trials, die1, die2, total_sum, roll_counts,
                   total_rolls, percentages, err>>

Next ==
    \/ \E n \in (-NegRolls)..MaxRolls : CallSimulate(n)
    \/ Trial
    \/ SimReturn
    \/ \E t \in 0..MaxRolls : CallCalculate(t)
    \/ CalcStep
    \/ CalcReturn

Spec == Init /\ [][Next]_vars

-----------------------------------------------------------------------------
(* Properties.                                                             *)

RECURSIVE SumOver(_, _)
SumOver(d, S) ==
    IF S = {} THEN 0
    ELSE LET k == CHOOSE x \in S : TRUE IN d[k] + SumOver(d, S \ {k})

\* The sum of all values of a count mapping.
SumCounts(d) == SumOver(d, DOMAIN d)

\* simulate_dice_rolls has returned its mapping to the caller.
SimReturned ==
    \/ pc \in {"sim_ret", "calc_loop", "calc_ret"}
    \/ pc = "raised" /\ err = "ZeroDivisionError"

\* C1: for every num_rolls > 0 and every sequence of die outcomes, the
\* values of the mapping simulate_dice_rolls(num_rolls) returns sum to
\* num_rolls.
C1_CountsSumToNumRolls ==
    (SimReturned /\ num_rolls > 0) => SumCounts(roll_counts) = num_rolls

C1_Witness ==
    /\ pc = "sim_ret"
    /\ num_rolls = MaxRolls
    /\ SumCounts(roll_counts) = MaxRolls
    /\ roll_counts[7] = MaxRolls - 1
    /\ roll_counts[2] = 1

\* C2: simulate_dice_rolls(num_rolls) fails with an InvalidArgument
\* condition whenever num_rolls <= 0 instead of returning a count mapping.
C2_NonPositiveRollsRejected ==
    num_rolls <= 0 => pc # "sim_ret"

\* C3: calculate_percentages(counts, total) fails with a division-by-zero
\* error whenever total = 0 and counts is non-empty, and returns no
\* percentage mapping: the step the call takes with total 0 raises
\* ZeroDivisionError with nothing stored.
C3_ZeroTotalRaises ==
    [][(pc = "calc_loop" /\ total_rolls = 0 /\ DOMAIN roll_counts # {})
          => /\ percentages = << >>
             /\ pc' = "raised"
             /\ err' = "ZeroDivisionError"
             /\ percentages' = << >>
      ]_vars

C3_Witness ==
    /\ pc = "raised"
    /\ err = "ZeroDivisionError"
    /\ total_rolls = 0
    /\ roll_counts = [k \in Keys |-> 0]

\* C4: for every valid num_rolls the keys of the mapping simulate_dice_rolls
\* returns, and of the mapping calculate_percentages derives from it, are
\* exactly 2..12, zero counts included.
C4_KeysAreTwoToTwelve ==
    /\ (SimReturned /\ num_rolls > 0) => DOMAIN roll_counts = Keys
    /\ (pc = "calc_ret" /\ num_rolls > 0) => DOMAIN percentages = Keys

C4_Witness ==
    /\ pc = "calc_ret"
    /\ num_rolls = 1
    /\ roll_counts[2] = 0
    /\ percentages[2] = FZero
    /\ DOMAIN percentages = Keys

\* Doubles x and y are equal or next to each other.
Adjacent(x, y) ==
    \/ x = y
    \/ ~IsZero(x) /\ NextUp(x) = y
    \/ ~IsZero(y) /\ NextUp(y) = x

\* 100 * count / total, the quotient of the exact product rounded once.
HundredTimesOver(count, total) == TrueDiv(Hundred * count, total)

\* C5 as stated: for every bucket s and every total > 0,
\* calculate_percentages(counts, total)[s] equals 100 * counts[s] / total.
C5_EqualsHundredCountOverTotal ==
    (pc = "calc_ret" /\ total_rolls > 0)
        => \A s \in DOMAIN percentages :
              percentages[s] = HundredTimesOver(roll_counts[s], total_rolls)

\* C5 amended: for every bucket s and every total > 0 the value stored for
\* s is the double 100 * counts[s] / total or one of the two doubles next
\* to it; when total is the sum of the counts, each value lies in [0, 100].
C5_WithinOneUlpOfHundredCountOverTotal ==
    (pc \in {"calc_loop", "calc_ret"} /\ total_rolls > 0)
        => \A s \in DOMAIN percentages :
              /\ Adjacent(percentages[s],
                          HundredTimesOver(roll_counts[s], total_rolls))
              /\ total_rolls = SumCounts(roll_counts)
                    => FLeq(percentages[s], FromInt(Hundred))

C5_Witness ==
    /\ pc = "calc_ret"
    /\ total_rolls = 3
    /\ SumCounts(roll_counts) = 3
    /\ roll_counts[7] = 1
    /\ percentages[7] # HundredTimesOver(1, 3)
    /\ NextUp(percentages[7]) = HundredTimesOver(1, 3)

\* A double x >= 1 as a natural number of units of 2^-(MantDig - 1).
Fixed(x) == IF IsZero(x) THEN << >> ELSE NatMul(x.m, 2 ^ x.e)

RECURSIVE FixedSum(_, _)
FixedSum(d, S) ==
    IF S = {} THEN << >>
    ELSE LET k == CHOOSE x \in S : TRUE
         IN  NatAdd(Fixed(d[k]), FixedSum(d, S \ {k}))

\* The exact sum of the values of d times 10000 lies between lo and hi.
SumTimesTenThousandWithin(d, lo, hi) ==
    LET total == NatMul(FixedSum(d, DOMAIN d), Hundred)
    IN  /\ NatLeq(NatMul(MinSig, lo), total)
        /\ NatLeq(total, NatMul(MinSig, hi))

\* C6: for every num_rolls > 0 the values of
\* calculate_percentages(simulate_dice_rolls(num_rolls), num_rolls) sum to
\* 100 within 0.01.
C6_PercentagesSumToHundred ==
    (pc = "calc_ret" /\ num_rolls > 0 /\ total_rolls = num_rolls)
        => SumTimesTenThousandWithin(percentages, 9999, 10001)

\* A run whose percentages do not add up to 100 exactly, only within the
\* tolerance.
C6_Witness ==
    /\ pc = "calc_ret"
    /\ num_rolls = 3
    /\ total_rolls = 3
    /\ roll_counts[6] = 1 /\ roll_counts[7] = 1 /\ roll_counts[8] = 1
    /\ SumTimesTenThousandWithin(percentages, 9999, 10001)
    /\ ~SumTimesTenThousandWithin(percentages, 10000, 10000)

\* C7: simulate_dice_rolls(1) returns one bucket at 1 and the other ten at
\* 0, and calculate_percentages of that mapping with total 1 has one bucket
\* at 100.0 and the rest at 0.0.
C7_SingleRoll ==
    /\ (SimReturned /\ num_rolls = 1)
          => /\ DOMAIN roll_counts = Keys
             /\ \E s \in Keys :
                   \A k \in Keys : roll_counts[k] = IF k = s THEN 1 ELSE 0
    /\ (pc = "calc_ret" /\ num_rolls = 1 /\ total_rolls = 1)
          => /\ DOMAIN percentages = Keys
             /\ \E s \in Keys :
                   \A k \in Keys :
                      percentages[k] = IF k = s THEN FromInt(Hundred) ELSE FZero

C7_Witness ==
    /\ pc = "calc_ret"
    /\ num_rolls = 1
    /\ total_rolls = 1
    /\ roll_counts[12] = 1
    /\ percentages[12] = FromInt(Hundred)
    /\ percentages[7] = FZero

\* C8: in every trial both die values are in 1..6 and their sum s satisfies
\* 2 <= s <= 12, so roll_counts[s] hits an existing key and never fails.
C8_SumInRange ==
    /\ err # "KeyError"
    /\ total_sum # 0
          => /\ die1 \in 1..6
             /\ die2 \in 1..6
             /\ total_sum = die1 + die2
             /\ total_sum \in 2..12
             /\ total_sum \in DOMAIN roll_counts

C8_Witness ==
    /\ pc = "sim_loop"
    /\ die1 = 6
    /\ die2 = 6
    /\ total_sum = 12
    /\ roll_counts[12] = 1

\* C9: each trial of the loop increments exactly the bucket keyed by the
\* pair's sum by exactly 1 and leaves the other ten unchanged, the loop ends
\* after exactly num_rolls trials, after k trials the counts sum to k, and
\* no count decreases while the loop runs.
C9_TrialStep ==
    [][/\ (pc = "sim_loop" /\ pc' = "sim_loop")
             => /\ trials' = trials + 1
                /\ trials' <= num_rolls
                /\ total_sum' \in DOMAIN roll_counts
                /\ \A k \in DOMAIN roll_counts :
                      roll_counts'[k] =
                         roll_counts[k] + (IF k = total_sum' THEN 1 ELSE 0)
                /\ SumCounts(roll_counts') = trials'
       /\ (pc = "sim_loop" /\ pc' = "sim_ret" /\ num_rolls >= 0)
             => /\ trials = num_rolls
                /\ SumCounts(roll_counts) = num_rolls
                /\ roll_counts' = roll_counts
      ]_vars

C9_Witness ==
    /\ pc = "sim_loop"
    /\ num_rolls = MaxRolls
    /\ trials = 2
    /\ total_sum = 7
    /\ roll_counts[7] = 2

\* C10: the mapping simulate_dice_rolls returned is not mutated afterwards
\* (calculate_percentages leaves its roll_counts argument unchanged and fills
\* a mapping of its own, starting empty), and each call of
\* simulate_dice_rolls starts from a mapping of all zeros, so counts of one
\* run never carry into another.
C10_CountsFrozenAndFresh ==
    [][/\ pc' # "sim_loop" => roll_counts' = roll_counts
       /\ (pc # "sim_loop" /\ pc' = "sim_loop")
             => roll_counts' = [k \in Keys |-> 0]
       /\ (pc # "calc_loop" /\ pc' = "calc_loop") => percentages' = << >>
      ]_vars

\* calculate_percentages has returned and its argument still holds the counts.
C10_Witness ==
    /\ pc = "calc_ret"
    /\ num_rolls = 2
    /\ total_rolls = 2
    /\ roll_counts[7] = 2
    /\ percentages[7] = FromInt(Hundred)

====
